---- MODULE Spec2Model ----
(***************************************************************************)
(* titiler-image: the IIIF Image API request handler                       *)
(* (IIIFFactory.register_image_api.iiif_image in titiler/image/factory.py) *)
(* and the functions of titiler/image/utils.py: _get_sizes, rotate,        *)
(* image_to_grayscale and image_to_bitonal.                                *)
(*                                                                         *)
(* The handler is modelled as a sequence of stages, one action per stage,  *)
(* in the order of the statements of the Python function.  The region,     *)
(* size and rotation path segments are character sequences, parsed the way *)
(* the Python code parses them (str.startswith, str.replace, str.split,    *)
(* int(), float()).  Python floats are modelled as exact rationals         *)
(* <<numerator, denominator>>, so the rounding error of binary floating    *)
(* point is not part of the model; None is modelled as 0 wherever the      *)
(* source only tests the value for truthiness.  Spec is the handler;       *)
(* SpecUtils is the functions of utils.py called on their own; SpecCache   *)
(* is the cached functions of titiler/image/dependencies.py (get_gcps,     *)
(* get_cutline) called from concurrent worker threads.                     *)
(***************************************************************************)
EXTENDS Integers, Sequences, FiniteSets, TLC

(***************************************************************************)
(* Bounds of the model.                                                    *)
(***************************************************************************)
\* upper bound of the width and of the height of the small source images
MaxDim == 4
\* upper bound of the integers written in the size tokens of the small cases
MaxSize == 5

(***************************************************************************)
(* Exact rational arithmetic standing for Python float arithmetic.         *)
(***************************************************************************)
Abs(n) == IF n < 0 THEN -n ELSE n

RECURSIVE Gcd(_, _)
Gcd(a, b) == IF b = 0 THEN a ELSE Gcd(b, a % b)

\* the rational n/d in lowest terms with a positive denominator
Rat(n, d) ==
    LET s == IF d < 0 THEN -1 ELSE 1
        g == Gcd(Abs(n), Abs(d))
    IN  <<(s * n) \div g, (s * d) \div g>>

Int2R(n) == <<n, 1>>
IsInt(q) == q[2] = 1

RAdd(a, b) == Rat(a[1] * b[2] + b[1] * a[2], a[2] * b[2])
RSub(a, b) == Rat(a[1] * b[2] - b[1] * a[2], a[2] * b[2])
RMul(a, b) == Rat(a[1] * b[1], a[2] * b[2])
\* a / b for b # 0
RDiv(a, b) == Rat(a[1] * b[2], a[2] * b[1])
RLt(a, b) == a[1] * b[2] < b[1] * a[2]
RLe(a, b) == a[1] * b[2] <= b[1] * a[2]
RGt(a, b) == RLt(b, a)
RMax(a, b) == IF RLt(a, b) THEN b ELSE a
RMin(a, b) == IF RLt(b, a) THEN b ELSE a

\* math.floor, math.ceil, int() (truncation towards zero) and the built-in
\* round() (nearest integer, ties to the even one); all return integers
Floor(q) == q[1] \div q[2]
Ceil(q) == -((-q[1]) \div q[2])
Trunc(q) == IF q[1] < 0 THEN Ceil(q) ELSE Floor(q)
Round(q) ==
    LET f == Floor(q)
        twice == 2 * (q[1] - f * q[2])      \* 2 * fractional part * q[2]
    IN  IF twice < q[2] THEN f
        ELSE IF twice > q[2] THEN f + 1
        ELSE IF f % 2 = 0 THEN f ELSE f + 1

(***************************************************************************)
(* Python str operations on character sequences.                           *)
(***************************************************************************)
StartsWith(s, p) == Len(s) >= Len(p) /\ SubSeq(s, 1, Len(p)) = p
EndsWith(s, p) == Len(s) >= Len(p) /\ SubSeq(s, Len(s) - Len(p) + 1, Len(s)) = p
Contains(s, c) == \E i \in 1..Len(s) : s[i] = c

\* s.replace(old, ""): every non-overlapping occurrence of old, from the left
RECURSIVE Remove(_, _)
Remove(s, old) ==
    IF s = <<>> THEN <<>>
    ELSE IF StartsWith(s, old) THEN Remove(SubSeq(s, Len(old) + 1, Len(s)), old)
    ELSE <<s[1]>> \o Remove(Tail(s), old)

\* s.split(","): a sequence of Len(commas) + 1 fields, some possibly empty
RECURSIVE Split(_)
Split(s) ==
    IF ~Contains(s, ",") THEN <<s>>
    ELSE LET i == CHOOSE k \in 1..Len(s) :
                      s[k] = "," /\ \A j \in 1..(k - 1) : s[j] # ","
         IN  <<SubSeq(s, 1, i - 1)>> \o Split(SubSeq(s, i + 1, Len(s)))

DigitChars == <<"0", "1", "2", "3", "4", "5", "6", "7", "8", "9">>
IsDigit(c) == \E i \in 1..10 : DigitChars[i] = c
DigitVal(c) == (CHOOSE i \in 1..10 : DigitChars[i] = c) - 1

RECURSIVE DigitsVal(_)
DigitsVal(s) ==
    IF s = <<>> THEN 0 ELSE 10 * DigitsVal(SubSeq(s, 1, Len(s) - 1)) + DigitVal(s[Len(s)])

RECURSIVE Pow10(_)
Pow10(k) == IF k = 0 THEN 1 ELSE 10 * Pow10(k - 1)

AllDigits(s) == \A i \in 1..Len(s) : IsDigit(s[i])
HasSign(s) == s # <<>> /\ s[1] \in {"-", "+"}
Unsigned(s) == IF HasSign(s) THEN Tail(s) ELSE s
SignOf(s) == IF s # <<>> /\ s[1] = "-" THEN -1 ELSE 1

\* int(s): an optional sign and one or more decimal digits, else ValueError
IntOk(s) == Unsigned(s) # <<>> /\ AllDigits(Unsigned(s))
IntVal(s) == SignOf(s) * DigitsVal(Unsigned(s))

\* float(s): an optional sign, decimal digits with at most one ".", and at
\* least one digit, else ValueError (the tokens of the model hold no
\* exponent, "inf", "nan", "_" or white space)
DotPos(s) == IF Contains(s, ".") THEN CHOOSE k \in 1..Len(s) : s[k] = "." /\ \A j \in 1..(k - 1) : s[j] # "."
             ELSE Len(s) + 1
IntPart(s) == SubSeq(s, 1, DotPos(s) - 1)
FracPart(s) == SubSeq(s, DotPos(s) + 1, Len(s))
FloatOk(s) ==
    LET u == Unsigned(s)
    IN  /\ AllDigits(IntPart(u))
        /\ AllDigits(FracPart(u))
        /\ Len(IntPart(u)) + Len(FracPart(u)) >= 1
FloatVal(s) ==
    LET u == Unsigned(s)
    IN  Rat(SignOf(s) * (DigitsVal(IntPart(u)) * Pow10(Len(FracPart(u))) + DigitsVal(FracPart(u))),
            Pow10(Len(FracPart(u))))

(***************************************************************************)
(* titiler/image/utils.py                                                  *)
(***************************************************************************)
Zero == <<0, 1>>
Hundred == <<100, 1>>

_percent(x, y) == RMul(RDiv(x, Hundred), y)

\* w, h are numbers (rationals); max_width, max_height, max_area are the
\* integers of IIIFSettings, 0 standing for None.  Returns <<w, h>>.
\* (_get_sizes_AreaBelow: the same with the comparison of max_area reversed)
_get_sizes_AreaBelow(w, h, max_width, max_height, max_area) ==
    IF max_area # 0 /\ RGt(Int2R(max_area), RMul(w, h))
    THEN LET area_ratio == RDiv(Int2R(max_area), RMul(w, h))
         IN  <<Int2R(Trunc(RMul(w, area_ratio))), Int2R(Trunc(RMul(h, area_ratio)))>>
    ELSE IF max_width # 0
    THEN LET mh == IF max_height # 0 THEN max_height ELSE max_width
             width == w
             height == h
             w1 == IF RGt(w, Int2R(max_width)) THEN Int2R(max_width) ELSE w
             h1 == IF RGt(w, Int2R(max_width))
                   THEN Int2R(Trunc(RDiv(RMul(height, Int2R(max_width)), width)))
                   ELSE h
         IN  IF RGt(h1, Int2R(mh))
             THEN <<Int2R(Trunc(RDiv(RMul(width, Int2R(mh)), height))), Int2R(mh)>>
             ELSE <<w1, h1>>
    ELSE <<w, h>>
_get_sizes(w, h, max_width, max_height, max_area) ==
    IF max_area # 0 /\ RLt(Int2R(max_area), RMul(w, h))
    THEN LET area_ratio == RDiv(Int2R(max_area), RMul(w, h))
         IN  <<Int2R(Trunc(RMul(w, area_ratio))), Int2R(Trunc(RMul(h, area_ratio)))>>
    ELSE IF max_width # 0
    THEN LET mh == IF max_height # 0 THEN max_height ELSE max_width
             width == w
             height == h
             w1 == IF RGt(w, Int2R(max_width)) THEN Int2R(max_width) ELSE w
             h1 == IF RGt(w, Int2R(max_width))
                   THEN Int2R(Trunc(RDiv(RMul(height, Int2R(max_width)), width)))
                   ELSE h
         IN  IF RGt(h1, Int2R(mh))
             THEN <<Int2R(Trunc(RDiv(RMul(width, Int2R(mh)), height))), Int2R(mh)>>
             ELSE <<w1, h1>>
    ELSE <<w, h>>

(***************************************************************************)
(* rio_tiler.models.ImageData, as utils.py uses it: data[b][r][c] is the   *)
(* value of band b at row r and column c, mask[r][c] is TRUE when the      *)
(* pixel is masked (not valid); count, height and width are the shape of   *)
(* the array.  Rows, columns and bands are numbered from 1 here and from 0 *)
(* in Python.                                                              *)
(***************************************************************************)
ImageData(data, mask) == [data |-> data, mask |-> mask]
Count(img) == Len(img.data)
Height(img) == Len(img.mask)
Width(img) == Len(img.mask[1])

\* an affine transform <<a, b, c, d, e, f>>: x' = a*x + b*y + c, y' = d*x + e*y + f
AffineApply(m, x, y) ==
    <<RAdd(RAdd(RMul(m[1], x), RMul(m[2], y)), m[3]),
      RAdd(RAdd(RMul(m[4], x), RMul(m[5], y)), m[6])>>
\* m * Affine.translation(tx, ty)
AffineTranslated(m, tx, ty) ==
    <<m[1], m[2], RAdd(RAdd(RMul(m[1], tx), RMul(m[2], ty)), m[3]),
      m[4], m[5], RAdd(RAdd(RMul(m[4], tx), RMul(m[5], ty)), m[6])>>
\* affine.cos_sin_deg for the multiples of 90 degrees, which it returns exactly
CosSinDeg(deg) ==
    LET d == deg % 360
    IN  IF d = 0 THEN <<Int2R(1), Zero>>
        ELSE IF d = 90 THEN <<Zero, Int2R(1)>>
        ELSE IF d = 180 THEN <<Int2R(-1), Zero>>
        ELSE <<Zero, Int2R(-1)>>
\* Affine.rotation(angle, pivot)
AffineRotation(angle, px, py) ==
    LET ca == CosSinDeg(angle)[1]
        sa == CosSinDeg(angle)[2]
    IN  <<ca, RSub(Zero, sa), RAdd(RSub(px, RMul(px, ca)), RMul(py, sa)),
          sa, ca, RSub(RSub(py, RMul(px, sa)), RMul(py, ca))>>

RECURSIVE RMaxOf(_)
RMaxOf(qs) == IF Len(qs) = 1 THEN qs[1] ELSE RMax(qs[1], RMaxOf(Tail(qs)))
RECURSIVE RMinOf(_)
RMinOf(qs) == IF Len(qs) = 1 THEN qs[1] ELSE RMin(qs[1], RMinOf(Tail(qs)))

\* expand: the size <<nw, nh>> that holds the four rotated corners
\* (ExpandedSize_Kept: the size of the input, as without expand)
ExpandedSize_Kept(w, h, m) == <<w, h>>
ExpandedSize(w, h, m) ==
    LET corners == <<AffineApply(m, Zero, Zero), AffineApply(m, Int2R(w), Zero),
                     AffineApply(m, Int2R(w), Int2R(h)), AffineApply(m, Zero, Int2R(h))>>
        xx == [i \in 1..4 |-> corners[i][1]]
        yy == [i \in 1..4 |-> corners[i][2]]
    IN  <<Ceil(RMaxOf(xx)) - Floor(RMinOf(xx)), Ceil(RMaxOf(yy)) - Floor(RMinOf(yy))>>

\* numpy.flip(array, axis=2): the columns in reverse order, data and mask
\* (FlipColumns_DataOnly: the same with the mask left as it was)
FlipColumns_DataOnly(img) ==
    LET w == Width(img)
    IN  ImageData([b \in 1..Count(img) |-> [r \in 1..Height(img) |-> [c \in 1..w |->
                       img.data[b][r][w + 1 - c]]]],
                  img.mask)
FlipColumns(img) ==
    LET w == Width(img)
    IN  ImageData([b \in 1..Count(img) |-> [r \in 1..Height(img) |-> [c \in 1..w |->
                       img.data[b][r][w + 1 - c]]]],
                  [r \in 1..Height(img) |-> [c \in 1..w |-> img.mask[r][w + 1 - c]]])

\* rasterio.warp.reproject with src_transform = identity and dst_transform = m
\* (nearest neighbour): the pixel of the source that holds the image under m
\* of the centre of the output pixel at row r, column c, or <<0, 0>> when
\* that point is outside the source
SourcePixel(img, m, r, c) ==
    LET p == AffineApply(m, <<2 * c - 1, 2>>, <<2 * r - 1, 2>>)
        sc == Floor(p[1]) + 1
        sr == Floor(p[2]) + 1
    IN  IF sc \in 1..Width(img) /\ sr \in 1..Height(img) THEN <<sr, sc>> ELSE <<0, 0>>

\* rotate(img, angle, expand, mirrored), angle a multiple of 90 degrees
rotate(img, angle, expand, mirrored) ==
    LET array == IF mirrored THEN FlipColumns(img) ELSE img
    IN  IF angle = 0 THEN array
        ELSE LET nband == Count(img)
                 w == Width(img)
                 h == Height(img)
                 centred == AffineRotation(-angle, Int2R(w \div 2), Int2R(h \div 2))
                 size == IF expand THEN ExpandedSize(w, h, centred) ELSE <<w, h>>
                 nw == size[1]
                 nh == size[2]
                 rotated_affine ==
                     IF expand
                     THEN AffineTranslated(centred, Rat(-(nw - w), 2), Rat(-(nh - h), 2))
                     ELSE centred
                 src(r, c) == SourcePixel(array, rotated_affine, r, c)
             IN  ImageData([b \in 1..nband |-> [r \in 1..nh |-> [c \in 1..nw |->
                                IF src(r, c) = <<0, 0>> THEN 0
                                ELSE array.data[b][src(r, c)[1]][src(r, c)[2]]]]],
                           [r \in 1..nh |-> [c \in 1..nw |->
                                IF src(r, c) = <<0, 0>> THEN TRUE
                                ELSE array.mask[src(r, c)[1]][src(r, c)[2]]]])

\* img.mask of rio_tiler: 255 for a valid pixel, 0 for a masked one
RioMask(img) == [r \in 1..Height(img) |-> [c \in 1..Width(img) |->
                    IF img.mask[r][c] THEN 0 ELSE 255]]
\* data.mask = ~img.mask.astype("bool")
\* (MaskOfRio_NotInverted: the same without the inversion)
MaskOfRio_NotInverted(m) == [r \in 1..Len(m) |-> [c \in 1..Len(m[r]) |-> m[r][c] # 0]]
MaskOfRio(m) == [r \in 1..Len(m) |-> [c \in 1..Len(m[r]) |-> ~(m[r][c] # 0)]]

\* (R * 299 / 1000 + G * 587 / 1000 + B * 114 / 1000).astype("uint8") on the
\* bands of an 8-bit image, with the array arithmetic of the numpy the
\* repository's tests pass on (value-based casting): the uint8 band times
\* 299 or 587 is a uint16 array, the uint8 band times 114 stays uint8, the
\* division is a float division
GrayValue(R, G, B) ==
    Trunc(RAdd(RAdd(Rat((R * 299) % 65536, 1000), Rat((G * 587) % 65536, 1000)),
               Rat((B * 114) % 256, 1000)))

\* image_to_grayscale(img): the image, or the HTTPException it raises
image_to_grayscale(img) ==
    IF Count(img) = 1 THEN [err |-> "none", img |-> img]
    ELSE IF Count(img) = 3
    THEN [err |-> "none",
          img |-> ImageData(<<[r \in 1..Height(img) |-> [c \in 1..Width(img) |->
                                  GrayValue(img.data[1][r][c], img.data[2][r][c],
                                            img.data[3][r][c])]]>>,
                            MaskOfRio(RioMask(img)))]
    ELSE [err |-> "UnsupportedBandCount", status_code |-> 400]

\* numpy.where(gray > 127, 255, 0)
\* (BitonalValue_From127: the same with gray >= 127)
BitonalValue_From127(gray) == IF gray >= 127 THEN 255 ELSE 0
BitonalValue(gray) == IF gray > 127 THEN 255 ELSE 0

\* image_to_bitonal(img): numpy.where returns a plain array, from which
\* ImageData makes a masked array with no pixel masked
image_to_bitonal(img) ==
    LET gray == image_to_grayscale(img)
    IN  IF gray.err # "none" THEN gray
        ELSE [err |-> "none",
              img |-> ImageData(<<[r \in 1..Height(gray.img) |-> [c \in 1..Width(gray.img) |->
                                      BitonalValue(gray.img.data[1][r][c])]]>>,
                                [r \in 1..Height(gray.img) |-> [c \in 1..Width(gray.img) |->
                                      FALSE]])]

(***************************************************************************)
(* titiler/image/factory.py, iiif_image: the region segment.               *)
(* A stage returns err = "none", or the exception it raises: an            *)
(* HTTPException(400) named after the parameter, or a ValueError that no   *)
(* handler catches.                                                        *)
(***************************************************************************)
Window(x, y, w, h) == [col_off |-> x, row_off |-> y, width |-> w, height |-> h]

s_full == <<"f", "u", "l", "l">>
s_square == <<"s", "q", "u", "a", "r", "e">>
s_pct == <<"p", "c", "t", ":">>
s_hpct == <<"^", "p", "c", "t", ":">>
s_max == <<"m", "a", "x">>
s_hmax == <<"^", "m", "a", "x">>

\* x, y, w, h = list(map(float, fields)): ValueError unless four floats
FourFloats(fields) == Len(fields) = 4 /\ \A i \in 1..4 : FloatOk(fields[i])

\* max(x, y, w, h) > 100 or min(x, y, w, h) < 0
\* (PctOutOfRange_NoLower: the same test without its lower bound)
PctOutOfRange_NoLower(px, py, pw, ph) == RGt(RMax(RMax(px, py), RMax(pw, ph)), Hundred)
PctOutOfRange(px, py, pw, ph) ==
    \/ RGt(RMax(RMax(px, py), RMax(pw, ph)), Hundred)
    \/ RLt(RMin(RMin(px, py), RMin(pw, ph)), Zero)

\* w = dst - x if w + x > dst else w
\* (ClipToEdge_Min: the rule w = min(dst - x, w + x) of main.py, line 745)
ClipToEdge_Min(x, w, dst) == RMin(RSub(dst, x), RAdd(w, x))
ClipToEdge(x, w, dst) == IF RGt(RAdd(w, x), dst) THEN RSub(dst, x) ELSE w

\* the check made on the window of every region form
\* (RegionPostCheck_NoHeight: the same check without window.height <= 0)
RegionPostCheck_NoHeight(window, dst_width, dst_height) ==
    IF \/ RLe(window.width, Zero)
       \/ RGt(window.col_off, dst_width)
       \/ RGt(window.row_off, dst_height)
    THEN "InvalidRegion"
    ELSE "none"
RegionPostCheck(window, dst_width, dst_height) ==
    IF \/ RLe(window.width, Zero)
       \/ RLe(window.height, Zero)
       \/ RGt(window.col_off, dst_width)
       \/ RGt(window.row_off, dst_height)
    THEN "InvalidRegion"
    ELSE "none"

\* 'square': x_off = (dst_width - min_size) // 2, and so for y_off
\* (CentredOffset_Far: the same without the halving)
CentredOffset_Far(dst, min_size) == dst - min_size
CentredOffset(dst, min_size) == (dst - min_size) \div 2

\* dst_w, dst_h: the integers dst.dataset.width, dst.dataset.height
ParseRegion(region, dst_w, dst_h) ==
    LET dst_width == Int2R(dst_w)
        dst_height == Int2R(dst_h)
        full == Window(Zero, Zero, dst_width, dst_height)
        checked(win) == [err |-> RegionPostCheck(win, dst_width, dst_height), window |-> win]
    IN  IF region = s_full THEN checked(full)
        ELSE IF region = s_square
        THEN LET min_size == IF dst_w < dst_h THEN dst_w ELSE dst_h
                 x_off == CentredOffset(dst_w, min_size)
                 y_off == CentredOffset(dst_h, min_size)
             IN  checked(Window(Int2R(x_off), Int2R(y_off), Int2R(min_size), Int2R(min_size)))
        ELSE IF StartsWith(region, s_pct)
        THEN LET fields == Split(Remove(region, s_pct))
             IN  IF ~FourFloats(fields) THEN [err |-> "ValueError", window |-> full]
                 ELSE LET px == FloatVal(fields[1])
                          py == FloatVal(fields[2])
                          pw == FloatVal(fields[3])
                          ph == FloatVal(fields[4])
                      IN  IF PctOutOfRange(px, py, pw, ph)
                          THEN [err |-> "InvalidRegion", window |-> full]
                          ELSE LET x == Int2R(Round(_percent(dst_width, px)))
                                   y == Int2R(Round(_percent(dst_height, py)))
                                   w == Int2R(Round(_percent(dst_width, pw)))
                                   h == Int2R(Round(_percent(dst_height, ph)))
                               IN  checked(Window(x, y, ClipToEdge(x, w, dst_width),
                                                  ClipToEdge(y, h, dst_height)))
        ELSE IF Len(Split(region)) = 4
        THEN LET fields == Split(region)
             IN  IF ~FourFloats(fields) THEN [err |-> "ValueError", window |-> full]
                 ELSE LET x == FloatVal(fields[1])
                          y == FloatVal(fields[2])
                          w == FloatVal(fields[3])
                          h == FloatVal(fields[4])
                      IN  checked(Window(x, y, ClipToEdge(x, w, dst_width),
                                         ClipToEdge(y, h, dst_height)))
        ELSE [err |-> "InvalidRegion", window |-> full]

(***************************************************************************)
(* iiif_image: the size segment, up to the call of _get_sizes.             *)
(***************************************************************************)
SizeResult(e, w, h) == [err |-> e, out_width |-> w, out_height |-> h]

\* out_width fixed, out_height = math.ceil(out_width / aspect_ratio)
\* (WidthBinds_Floor: the same with math.floor)
WidthBinds_Floor(w, aspect_ratio) == <<w, Int2R(Floor(RDiv(w, aspect_ratio)))>>
WidthBinds(w, aspect_ratio) == <<w, Int2R(Ceil(RDiv(w, aspect_ratio)))>>
\* out_height fixed, out_width = math.ceil(aspect_ratio * out_height)
HeightBinds(h, aspect_ratio) == <<Int2R(Ceil(RMul(aspect_ratio, h))), h>>

\* max_width, max_height = list(map(int, fields)): ValueError unless two ints
TwoInts(fields) == Len(fields) = 2 /\ \A i \in 1..2 : IntOk(fields[i])

\* 'pct:n': pct_size > 100 or pct_size <= 0
PctSizeOutOfRange(pct_size) == RGt(pct_size, Hundred) \/ RLe(pct_size, Zero)
\* '^pct:n': pct_size <= 0
\* (HPctSizeOutOfRange_Capped: the test of 'pct:n' applied to '^pct:n')
HPctSizeOutOfRange_Capped(pct_size) == RGt(pct_size, Hundred) \/ RLe(pct_size, Zero)
HPctSizeOutOfRange(pct_size) == RLe(pct_size, Zero)

ParseSize(size, window, max_width, max_height) ==
    LET win_w == window.width
        win_h == window.height
        aspect_ratio == RDiv(win_w, win_h)
        ok(p) == SizeResult("none", p[1], p[2])
        fail(e) == SizeResult(e, win_w, win_h)
        fit(fields) ==
            IF RGt(aspect_ratio, Int2R(1))
            THEN WidthBinds(Int2R(IntVal(fields[1])), aspect_ratio)
            ELSE HeightBinds(Int2R(IntVal(fields[2])), aspect_ratio)
    IN  IF size = s_max THEN ok(<<win_w, win_h>>)
        ELSE IF size = s_hmax
        THEN IF RGt(aspect_ratio, Int2R(1))
             THEN ok(WidthBinds(IF max_width # 0 THEN RMax(win_w, Int2R(max_width)) ELSE win_w,
                                aspect_ratio))
             ELSE ok(HeightBinds(IF max_height # 0 THEN RMax(win_h, Int2R(max_height)) ELSE win_h,
                                 aspect_ratio))
        ELSE IF StartsWith(size, s_pct)
        THEN LET t == Remove(size, s_pct)
             IN  IF ~FloatOk(t) THEN fail("ValueError")
                 ELSE IF PctSizeOutOfRange(FloatVal(t)) THEN fail("InvalidSize")
                 ELSE ok(<<Int2R(Round(_percent(win_w, FloatVal(t)))),
                           Int2R(Round(_percent(win_h, FloatVal(t))))>>)
        ELSE IF StartsWith(size, s_hpct)
        THEN LET t == Remove(size, s_hpct)
             IN  IF ~FloatOk(t) THEN fail("ValueError")
                 ELSE IF HPctSizeOutOfRange(FloatVal(t)) THEN fail("InvalidSize")
                 ELSE ok(<<Int2R(Round(_percent(win_w, FloatVal(t)))),
                           Int2R(Round(_percent(win_h, FloatVal(t))))>>)
        ELSE IF Contains(size, ",")
        THEN LET sizes == Split(size)
             IN  IF StartsWith(size, <<"^", "!">>)
                 THEN LET fields == Split(Remove(size, <<"!", "^">>))
                      IN  IF ~TwoInts(fields) THEN fail("ValueError") ELSE ok(fit(fields))
                 ELSE IF StartsWith(size, <<"!">>)
                 THEN LET fields == Split(Remove(size, <<"!">>))
                      IN  IF ~TwoInts(fields) THEN fail("ValueError")
                          ELSE IF RGt(fit(fields)[1], win_w) \/ RGt(fit(fields)[2], win_h)
                          THEN SizeResult("InvalidSize", fit(fields)[1], fit(fields)[2])
                          ELSE ok(fit(fields))
                 ELSE IF StartsWith(size, <<"^">>)
                 THEN LET hsizes == Split(Remove(size, <<"^">>))
                      IN  IF EndsWith(size, <<",">>)
                          THEN IF ~IntOk(hsizes[1]) THEN fail("ValueError")
                               ELSE ok(WidthBinds(Int2R(IntVal(hsizes[1])), aspect_ratio))
                          ELSE IF StartsWith(size, <<",">>)
                          THEN IF ~IntOk(hsizes[2]) THEN fail("ValueError")
                               ELSE ok(HeightBinds(Int2R(IntVal(hsizes[2])), aspect_ratio))
                          ELSE IF hsizes[1] # <<>> /\ hsizes[2] # <<>>
                          THEN IF ~TwoInts(hsizes) THEN fail("ValueError")
                               ELSE ok(<<Int2R(IntVal(hsizes[1])), Int2R(IntVal(hsizes[2]))>>)
                          ELSE ok(<<win_w, win_h>>)
                 ELSE IF EndsWith(size, <<",">>)
                 THEN IF ~IntOk(sizes[1]) THEN fail("ValueError")
                      ELSE IF RGt(Int2R(IntVal(sizes[1])), win_w)
                      THEN SizeResult("InvalidSize", Int2R(IntVal(sizes[1])), win_h)
                      ELSE ok(WidthBinds(Int2R(IntVal(sizes[1])), aspect_ratio))
                 ELSE IF StartsWith(size, <<",">>)
                 THEN IF ~IntOk(sizes[2]) THEN fail("ValueError")
                      ELSE IF RGt(Int2R(IntVal(sizes[2])), win_h)
                      THEN SizeResult("InvalidSize", win_w, Int2R(IntVal(sizes[2])))
                      ELSE ok(HeightBinds(Int2R(IntVal(sizes[2])), aspect_ratio))
                 ELSE IF sizes[1] # <<>> /\ sizes[2] # <<>>
                 THEN IF ~TwoInts(sizes) THEN fail("ValueError")
                      ELSE IF RGt(Int2R(IntVal(sizes[1])), win_w) \/ RGt(Int2R(IntVal(sizes[2])), win_h)
                      THEN SizeResult("InvalidSize", Int2R(IntVal(sizes[1])), Int2R(IntVal(sizes[2])))
                      ELSE ok(<<Int2R(IntVal(sizes[1])), Int2R(IntVal(sizes[2]))>>)
                 ELSE fail("InvalidSize")
        ELSE fail("InvalidSize")

(***************************************************************************)
(* iiif_image: the rotation segment.                                       *)
(***************************************************************************)
MaxRotation == 360

ParseRotation(rotation) ==
    LET t == Remove(rotation, <<"!">>)
    IN  IF ~FloatOk(t) THEN [err |-> "InvalidRotation", rot |-> Zero, mirrored |-> FALSE]
        ELSE IF RLt(FloatVal(t), Zero) \/ RGt(FloatVal(t), Int2R(MaxRotation))
        THEN [err |-> "InvalidRotation", rot |-> FloatVal(t), mirrored |-> FALSE]
        ELSE [err |-> "none", rot |-> FloatVal(t), mirrored |-> StartsWith(rotation, <<"!">>)]

\* the HTTP status of a request that ends with the exception err: the
\* HTTPExceptions carry status_code=400, a ValueError is not handled
StatusOf(err) ==
    IF err = "none" THEN 200
    ELSE IF err \in {"ValueError", "RasterioIOError", "InvalidFormat"} THEN 500 ELSE 400

(***************************************************************************)
(* The requests.  A path segment is described by the form it was written   *)
(* in, the numbers it was written from (form and numbers are only what the *)
(* client meant: the handler reads tok alone) and the characters tok.      *)
(***************************************************************************)
RECURSIVE Digits(_)
Digits(n) == IF n < 10 THEN <<DigitChars[n + 1]>> ELSE Digits(n \div 10) \o <<DigitChars[(n % 10) + 1]>>

IntTok(n) == IF n < 0 THEN <<"-">> \o Digits(-n) ELSE Digits(n)
\* a rational that is an integer or an odd multiple of 1/2, in decimal notation
NumTok(q) ==
    (IF q[1] < 0 THEN <<"-">> ELSE <<>>)
        \o Digits(Abs(q[1]) \div q[2])
        \o (IF q[2] = 2 THEN <<".", "5">> ELSE <<>>)

Seg(f, nums, t) == [form |-> f, v |-> nums, tok |-> t]

AbsRegion(x, y, w, h) ==
    Seg("x,y,w,h", <<x, y, w, h>>,
        NumTok(x) \o <<",">> \o NumTok(y) \o <<",">> \o NumTok(w) \o <<",">> \o NumTok(h))
PctRegion(x, y, w, h) ==
    Seg("pct:x,y,w,h", <<x, y, w, h>>,
        s_pct \o NumTok(x) \o <<",">> \o NumTok(y) \o <<",">> \o NumTok(w) \o <<",">> \o NumTok(h))
FullRegion == Seg("full", <<>>, s_full)
SquareRegion == Seg("square", <<>>, s_square)
Raw(t) == Seg("other", <<>>, t)

\* offsets: before the image, at the origin, fractional, at the far edge
OffVals == {Int2R(-1), Zero, <<3, 2>>, Int2R(MaxDim)}
\* extents: empty, fractional, inside, beyond the far edge
ExtVals == {Zero, <<3, 2>>, Int2R(2), Int2R(MaxDim + 1)}

AbsRegions == {AbsRegion(x, y, w, h) : x \in OffVals, y \in OffVals, w \in ExtVals, h \in ExtVals}
PctRegions ==
    {PctRegion(x, y, w, h) : x \in {Zero, Int2R(50), Hundred, Int2R(105)},
                             y \in {Int2R(-1), Zero, Int2R(50)},
                             w \in {Int2R(-1), Zero, <<25, 2>>, Int2R(50), Hundred, Int2R(105)},
                             h \in {Int2R(50), Hundred}}
OtherRegions ==
    {Raw(<<"y", "o">>), Raw(<<>>), Raw(<<"1", ",", "2", ",", "3">>),
     Raw(s_pct \o <<"1", ",", "2", ",", "3">>), Raw(<<"a", ",", "b", ",", "c", ",", "d">>),
     Raw(s_pct \o <<"x", ",", "0", ",", "5", "0", ",", "5", "0">>),
     Raw(<<"0", ",", "0", ",", ",", "2">>)}
Regions == {FullRegion, SquareRegion} \cup AbsRegions \cup PctRegions \cup OtherRegions

Size0(f, t) == Seg(f, <<>>, t)
Size1(f, n, t) == Seg(f, <<n>>, t)
Size2(f, w, h, t) == Seg(f, <<w, h>>, t)

SizeInts == (-1)..MaxSize
PairInts == {0, 2, MaxDim - 1, MaxSize}
PctVals == {Int2R(-50), Zero, <<25, 2>>, Int2R(50), Hundred, Int2R(150), Int2R(300)}

Sizes ==
    {Size0("max", s_max), Size0("^max", s_hmax)}
    \cup {Size1("pct:n", n, s_pct \o NumTok(n)) : n \in PctVals}
    \cup {Size1("^pct:n", n, s_hpct \o NumTok(n)) : n \in PctVals}
    \cup {Size1("w,", w, IntTok(w) \o <<",">>) : w \in SizeInts}
    \cup {Size1(",h", h, <<",">> \o IntTok(h)) : h \in SizeInts}
    \cup {Size1("^w,", w, <<"^">> \o IntTok(w) \o <<",">>) : w \in SizeInts}
    \cup {Size1("^,h", h, <<"^", ",">> \o IntTok(h)) : h \in SizeInts}
    \cup {Size2("w,h", w, h, IntTok(w) \o <<",">> \o IntTok(h)) : w \in PairInts, h \in PairInts}
    \cup {Size2("^w,h", w, h, <<"^">> \o IntTok(w) \o <<",">> \o IntTok(h)) : w \in PairInts, h \in PairInts}
    \cup {Size2("!w,h", w, h, <<"!">> \o IntTok(w) \o <<",">> \o IntTok(h)) : w \in PairInts, h \in PairInts}
    \cup {Size2("^!w,h", w, h, <<"^", "!">> \o IntTok(w) \o <<",">> \o IntTok(h)) : w \in PairInts, h \in PairInts}
OtherSizes ==
    {Raw(s_full), Raw(<<"a", "b", "c", ",">>), Raw(<<",">>), Raw(s_pct \o <<"x">>),
     Raw(<<"1", ",", "2", ",", "3">>), Raw(<<"^", "1", ",", ",", "2">>),
     Raw(<<"2", ".", "5", ",">>), Raw(<<"^", ",">>), Raw(<<>>), Raw(<<"!", "3">>)}

Rot(f, d, t) == Seg(f, <<d>>, t)
RotVals == {Int2R(-1), Zero, <<45, 2>>, Int2R(90), Int2R(180), Int2R(270), Int2R(360),
            Int2R(361), Int2R(900)}
Rotations ==
    {Rot("n", d, NumTok(d)) : d \in RotVals} \cup {Rot("!n", d, <<"!">> \o NumTok(d)) : d \in RotVals}
OtherRotations ==
    {Raw(<<"a", "b", "c">>), Raw(<<"9", "!", "0">>), Raw(<<"!", "!", "9", "0">>), Raw(<<>>),
     Raw(<<"!">>)}

NoRotation == Rot("n", Zero, <<"0">>)
MaxSizeSeg == Size0("max", s_max)

\* the source images: a landscape, a portrait and a square one
SmallSources == {<<MaxDim, MaxDim - 1>>, <<MaxDim - 1, MaxDim>>, <<MaxDim, MaxDim>>}

Req(source, r, s, t) == [width |-> source[1], height |-> source[2], region |-> r, size |-> s, rotation |-> t]

\* windows for the size cases: the whole image, the centred square, and
\* windows whose width and height are not whole numbers of pixels
SizeCaseRegions ==
    {FullRegion, SquareRegion,
     AbsRegion(<<1, 2>>, Zero, <<5, 2>>, <<3, 2>>),
     AbsRegion(Zero, Zero, <<3, 2>>, Int2R(2))}

\* requests that fail or pass at each of the three path segments
StageRequests ==
    {Req(src, r, s, t) : src \in {<<MaxDim, MaxDim - 1>>},
                         r \in {Raw(<<"y", "o">>), FullRegion},
                         s \in {Raw(s_full), MaxSizeSeg},
                         t \in {Raw(<<"a", "b", "c">>), NoRotation}}
SmallRequests ==
    {Req(src, r, MaxSizeSeg, NoRotation) : src \in SmallSources, r \in Regions}
    \cup {Req(src, r, s, NoRotation) : src \in SmallSources, r \in SizeCaseRegions,
                                       s \in Sizes \cup OtherSizes}
    \cup {Req(src, FullRegion, MaxSizeSeg, t) : src \in SmallSources,
                                                t \in Rotations \cup OtherRotations}
    \cup StageRequests

\* the image and the configured limit of the repository's tests
TestWidth == 1000
TestHeight == 695
TestMaxWidth == 2000

TestRegions ==
    {FullRegion, SquareRegion,
     AbsRegion(Zero, Zero, Int2R(10), Int2R(20)),
     AbsRegion(Zero, Zero, Int2R(1005), Int2R(700)),
     AbsRegion(Zero, Int2R(1000), Hundred, Hundred),
     PctRegion(Int2R(10), Int2R(10), Int2R(10), Int2R(10)),
     PctRegion(Int2R(105), Hundred, Hundred, Hundred),
     Raw(<<"y", "o">>)}
TestSizes ==
    {Size0("^max", s_hmax)}
    \cup {Size1("pct:n", n, s_pct \o NumTok(n)) : n \in {Int2R(50), Int2R(-50), Int2R(150)}}
    \cup {Size1("^pct:n", n, s_hpct \o NumTok(n)) : n \in {Int2R(-50), Int2R(150), Int2R(300)}}
    \cup {Size1("w,", w, IntTok(w) \o <<",">>) : w \in {0, 500, 1500}}
    \cup {Size1("^w,", w, <<"^">> \o IntTok(w) \o <<",">>) : w \in {0, 1500}}
    \cup {Size1(",h", h, <<",">> \o IntTok(h)) : h \in {0, 348, 1042}}
    \cup {Size1("^,h", h, <<"^", ",">> \o IntTok(h)) : h \in {0, 1042}}
    \cup {Size2("w,h", p[1], p[2], IntTok(p[1]) \o <<",">> \o IntTok(p[2])) :
             p \in {<<100, 50>>, <<1500, 1000>>, <<0, 0>>}}
    \cup {Size2("^w,h", p[1], p[2], <<"^">> \o IntTok(p[1]) \o <<",">> \o IntTok(p[2])) :
             p \in {<<1500, 1000>>, <<0, 0>>}}
    \cup {Size2("!w,h", p[1], p[2], <<"!">> \o IntTok(p[1]) \o <<",">> \o IntTok(p[2])) :
             p \in {<<750, 800>>, <<1500, 800>>, <<750, 100>>}}
    \cup {Size2("^!w,h", p[1], p[2], <<"^", "!">> \o IntTok(p[1]) \o <<",">> \o IntTok(p[2])) :
             p \in {<<1500, 800>>, <<0, 0>>}}
TestRotations ==
    {Rot("n", Int2R(90), <<"9", "0">>), Rot("n", Int2R(180), <<"1", "8", "0">>),
     Rot("!n", Int2R(90), <<"!", "9", "0">>), Rot("!n", Int2R(900), <<"!", "9", "0", "0">>)}

TestRequests ==
    {Req(<<TestWidth, TestHeight>>, r, MaxSizeSeg, NoRotation) : r \in TestRegions}
    \cup {Req(<<TestWidth, TestHeight>>, FullRegion, s, NoRotation) : s \in TestSizes}
    \cup {Req(<<TestWidth, TestHeight>>, FullRegion, MaxSizeSeg, t) : t \in TestRotations}

Requests == SmallRequests \cup TestRequests

\* the query parameters of a request (rescale, color_formula, quality, colormap) and
\* what the dataset is like: whether it carries a colormap, its band count, and
\* whether its pixels can be read
Params(rescale, color_formula, quality, colormap, src_colormap, count, readable) ==
    [rescale |-> rescale, color_formula |-> color_formula, quality |-> quality,
     colormap |-> colormap, src_colormap |-> src_colormap, count |-> count,
     readable |-> readable]
Qualities == {"default", "color", "gray", "bitonal"}
BandCounts == {1, 3, 4}
DefaultParams == Params(FALSE, FALSE, "default", FALSE, FALSE, 3, TRUE)
AllParams ==
    {Params(rs, cf, q, cm, sc, n, rd) : rs \in BOOLEAN, cf \in BOOLEAN, q \in Qualities,
                                        cm \in BOOLEAN, sc \in BOOLEAN, n \in BandCounts,
                                        rd \in BOOLEAN}
ParamsOf(r) == IF r \in StageRequests THEN AllParams ELSE {DefaultParams}

\* IIIFSettings after check_max: max_height is set exactly when max_width is
Settings(mw, mh, ma) == [max_width |-> mw, max_height |-> mh, max_area |-> ma]
SettingsSet ==
    {Settings(0, 0, 0),
     Settings(MaxDim - 1, MaxDim - 1, 0),
     Settings(MaxDim + 1, 2, 0),
     Settings(0, 0, MaxDim + 2),
     Settings(MaxDim, MaxDim, 2 * MaxDim),
     Settings(TestMaxWidth, TestMaxWidth, 0)}

(***************************************************************************)
(* dependencies.py: get_gcps and get_cutline, each memoised by             *)
(* cachetools.cached over a TTLCache of its own, with no lock.  A cache is *)
(* the sequence of its entries, the least recently used first; an entry    *)
(* holds its key, its value and the time it expires at.  The capacity and  *)
(* the time to live (512 entries and 3600 s in the code) are scaled down.  *)
(* A lookup and a store are each one step: what interleaved method bodies  *)
(* of an unlocked TTLCache do to its internals is not part of the model.   *)
(***************************************************************************)
CacheMaxsize == 2
CacheTtl == 1
MaxTimer == 2
Threads == {1, 2}
CachedFns == {"get_gcps", "get_cutline"}
\* the files a request may name: two polygon documents and a point document
CacheKeys == {"a", "b", "point"}

Entry(k, val, expires) == [key |-> k, val |-> val, expires |-> expires]
HasKey(c, k) == \E i \in 1..Len(c) : c[i].key = k
EntryOf(c, k) == c[CHOOSE i \in 1..Len(c) : c[i].key = k]
WithoutKey(c, k) == SelectSeq(c, LAMBDA e : e.key # k)

\* TTLCache.__getitem__: an entry past its time is missing, also while it is still held
CacheHit(c, k, time) == HasKey(c, k) /\ time < EntryOf(c, k).expires
\* the same lookup with the key left out of the comparison
CacheGet_AnyKey(c, k, time) ==
    IF c # <<>> /\ time < c[1].expires
        THEN [hit |-> TRUE, val |-> c[1].val]
        ELSE [hit |-> FALSE]
CacheGet(c, k, time) ==
    IF CacheHit(c, k, time)
        THEN [hit |-> TRUE, val |-> EntryOf(c, k).val]
        ELSE [hit |-> FALSE]
\* TTLCache.__getitem__ moves the entry it finds to the recently used end
CacheTouch(c, k) ==
    IF HasKey(c, k) THEN Append(WithoutKey(c, k), EntryOf(c, k)) ELSE c
\* TTLCache.expire
CacheExpire(c, time) == SelectSeq(c, LAMBDA e : time < e.expires)
\* TTLCache.__setitem__: expire, make room for a new key, then store with a new time
CacheSet(c, k, val, time) ==
    LET live == CacheExpire(c, time)
        room == IF ~HasKey(live, k) /\ Len(live) >= CacheMaxsize THEN Tail(live) ELSE live
    IN  Append(WithoutKey(room, k), Entry(k, val, time + CacheTtl))

\* what the body of the function returns or raises for a file
Fetch(fn, k) ==
    IF fn = "get_cutline" /\ k = "point"
        THEN [err |-> "HTTPException", status_code |-> 400]
        ELSE [err |-> "none", val |-> [fn |-> fn, of |-> k]]

(***************************************************************************)
(* The state: the process-wide settings, and one request being handled.    *)
(***************************************************************************)
VARIABLES
    iiif_settings,  \* titiler.image.settings.iiif_settings
    pc,             \* the statement of iiif_image the request is at
    req,            \* the request: the source's dimensions and the path segments
    srcOpen,        \* the ImageReader of the request is open
    closes,         \* how many times the ImageReader was closed in this request
    window,         \* local variable window
    out_width,      \* local variable out_width
    out_height,     \* local variable out_height
    rot,            \* local variable rot
    mirrored,       \* rotation.startswith("!"), as passed to rotate
    reads,          \* the calls of dst.read issued by this request
    error,          \* the exception that ended the request, or "none"
    raised_in,      \* the stage (value of pc) that raised it, or "none"
    status,         \* the HTTP status of the response, 0 before there is one
    params,         \* the query parameters of the request and the dataset's properties
    stages,         \* the stages the request has run so far, in order
    colormap,       \* local variable colormap: "query" or "none"
    dst_colormap,   \* local variable dst_colormap: "dataset" or "none"
    bands,          \* image.count, 0 before the read
    stale_use,      \* dst was used while the ImageReader was closed
    call,           \* a direct call of a function of utils.py: its name and arguments
    ret,            \* what that call returned or raised, NoRet before it returns
    cache,          \* the TTLCache of each cached function of dependencies.py
    lookups,        \* the calls of the cached functions in progress, one per worker thread
    timer           \* the clock of the caches

vars == <<iiif_settings, pc, req, srcOpen, closes, window, out_width, out_height, rot,
          mirrored, reads, error, raised_in, status, params, stages, colormap, dst_colormap,
          bands, stale_use, call, ret, cache, lookups, timer>>
\* the variables of the direct calls of utils.py
uvars == <<call, ret>>
\* the variables of the cached functions of dependencies.py
cvars == <<cache, lookups, timer>>
\* no direct call is made while a request is handled
NoCall == [fn |-> "none"]
NoRet == [err |-> "pending"]
\* a worker thread that is in no cached function
NoLookup == [pc |-> "idle", fn |-> "none", key |-> "none", hit |-> FALSE, ret |-> NoRet]
NoLookups ==
    /\ cache = [fn \in CachedFns |-> <<>>]
    /\ lookups = [t \in Threads |-> NoLookup]
    /\ timer = 0

NoRequest == [width |-> 0, height |-> 0, region |-> Raw(<<>>), size |-> Raw(<<>>),
              rotation |-> Raw(<<>>)]
NoWindow == Window(Zero, Zero, Zero, Zero)

Idle ==
    /\ pc = "idle"
    /\ req = NoRequest
    /\ srcOpen = FALSE
    /\ closes = 0
    /\ window = NoWindow
    /\ out_width = Zero
    /\ out_height = Zero
    /\ rot = Zero
    /\ mirrored = FALSE
    /\ reads = <<>>
    /\ error = "none"
    /\ raised_in = "none"
    /\ status = 0
    /\ params = DefaultParams
    /\ stages = <<>>
    /\ colormap = "none"
    /\ dst_colormap = "none"
    /\ bands = 0
    /\ stale_use = FALSE

Init ==
    /\ iiif_settings \in SettingsSet
    /\ Idle
    /\ call = NoCall
    /\ ret = NoRet
    /\ NoLookups

\* leaving the with block calls ImageReader.__exit__, which closes the reader
Closes_Again(open, n) == n + 1
Closes(open, n) == IF open THEN n + 1 ELSE n

\* the exception e leaves the handler: inside the with block it closes the reader
Raise(e) ==
    /\ pc' = "done"
    /\ error' = e
    /\ raised_in' = pc
    /\ status' = StatusOf(e)
    /\ srcOpen' = FALSE
    /\ closes' = Closes(srcOpen, closes)

\* the locals of the later stages
lvars == <<colormap, dst_colormap, bands>>

\* with ImageReader(identifier) as dst: dst_width, dst_height
OpenSource ==
    /\ pc = "idle"
    /\ \E r \in Requests : \E p \in ParamsOf(r) :
          /\ req' = r
          /\ params' = p
          /\ colormap' = IF p.colormap THEN "query" ELSE "none"
    /\ srcOpen' = TRUE
    /\ stale_use' = (stale_use \/ ~srcOpen')
    /\ pc' = "region"
    /\ UNCHANGED <<iiif_settings, closes, window, out_width, out_height, rot, mirrored, reads,
                   error, raised_in, status, stages, dst_colormap, bands>>
    /\ UNCHANGED <<uvars, cvars>>

RegionStage ==
    /\ pc = "region"
    /\ stages' = Append(stages, "region")
    /\ LET res == ParseRegion(req.region.tok, req.width, req.height)
       IN  /\ window' = res.window
           /\ IF res.err = "none"
              THEN /\ pc' = "size"
                   /\ UNCHANGED <<srcOpen, closes, error, raised_in, status>>
              ELSE Raise(res.err)
    /\ UNCHANGED <<iiif_settings, req, out_width, out_height, rot, mirrored, reads>>
    /\ UNCHANGED <<params, lvars, stale_use, uvars, cvars>>

SizeStage ==
    /\ pc = "size"
    /\ stages' = Append(stages, "size")
    /\ LET res == ParseSize(req.size.tok, window, iiif_settings.max_width,
                            iiif_settings.max_height)
       IN  /\ out_width' = res.out_width
           /\ out_height' = res.out_height
           /\ IF res.err = "none"
              THEN /\ pc' = "limits"
                   /\ UNCHANGED <<srcOpen, closes, error, raised_in, status>>
              ELSE Raise(res.err)
    /\ UNCHANGED <<iiif_settings, req, window, rot, mirrored, reads>>
    /\ UNCHANGED <<params, lvars, stale_use, uvars, cvars>>

\* out_width, out_height = _get_sizes(...); if out_width <= 1 or out_height <= 1: raise
\* (the second half of the size stage)
LimitsStage ==
    /\ pc = "limits"
    /\ LET sz == _get_sizes(out_width, out_height, iiif_settings.max_width,
                            iiif_settings.max_height, iiif_settings.max_area)
       IN  /\ out_width' = sz[1]
           /\ out_height' = sz[2]
           /\ IF RLe(sz[1], Int2R(1)) \/ RLe(sz[2], Int2R(1))
              THEN Raise("InvalidSize")
              ELSE /\ pc' = "read"
                   /\ UNCHANGED <<srcOpen, closes, error, raised_in, status>>
    /\ UNCHANGED <<iiif_settings, req, window, rot, mirrored, reads>>
    /\ UNCHANGED <<params, stages, lvars, stale_use, uvars, cvars>>

\* image = dst.read(window=window, width=int(out_width), height=int(out_height));
\* dst_colormap = getattr(dst, "colormap", None); the with block ends
ReadStage ==
    /\ pc = "read"
    /\ stages' = Append(stages, "read")
    /\ reads' = Append(reads, [window |-> window, width |-> Trunc(out_width),
                               height |-> Trunc(out_height)])
    /\ stale_use' = (stale_use \/ ~srcOpen)
    /\ IF params.readable
       THEN /\ bands' = params.count
            /\ dst_colormap' = IF params.src_colormap THEN "dataset" ELSE "none"
            /\ srcOpen' = FALSE
            /\ closes' = Closes(srcOpen, closes)
            /\ pc' = "rotation"
            /\ UNCHANGED <<error, raised_in, status>>
       ELSE /\ Raise("RasterioIOError")
            /\ UNCHANGED <<bands, dst_colormap>>
    /\ UNCHANGED <<iiif_settings, req, window, out_width, out_height, rot, mirrored>>
    /\ UNCHANGED <<params, colormap, uvars, cvars>>

\* rot = float(rotation.replace("!", "")); image = rotate(image, rot, ...)
RotationStage ==
    /\ pc = "rotation"
    /\ stages' = Append(stages, "rotation")
    /\ LET res == ParseRotation(req.rotation.tok)
       IN  /\ rot' = res.rot
           /\ mirrored' = res.mirrored
           /\ IF res.err = "none"
              THEN /\ pc' = "rescale"
                   /\ UNCHANGED <<srcOpen, closes, error, raised_in, status>>
              ELSE Raise(res.err)
    /\ UNCHANGED <<iiif_settings, req, window, out_width, out_height, reads>>
    /\ UNCHANGED <<params, lvars, stale_use, uvars, cvars>>

\* if rescale: image.rescale(rescale)
RescaleStage ==
    /\ pc = "rescale"
    /\ stages' = IF params.rescale THEN Append(stages, "rescale") ELSE stages
    /\ pc' = "color_formula"
    /\ UNCHANGED <<iiif_settings, req, srcOpen, closes, window, out_width, out_height, rot,
                   mirrored, reads, error, raised_in, status>>
    /\ UNCHANGED <<params, lvars, stale_use, uvars, cvars>>

\* if color_formula: image.apply_color_formula(color_formula)
ColorFormulaStage ==
    /\ pc = "color_formula"
    /\ stages' = IF params.color_formula THEN Append(stages, "color_formula") ELSE stages
    /\ pc' = "quality"
    /\ UNCHANGED <<iiif_settings, req, srcOpen, closes, window, out_width, out_height, rot,
                   mirrored, reads, error, raised_in, status>>
    /\ UNCHANGED <<params, lvars, stale_use, uvars, cvars>>

\* what the two quality branches leave of a colormap
QualityColormap_Kept(quality, cmap) == cmap
QualityColormap(quality, cmap) == IF quality \in {"gray", "bitonal"} THEN "none" ELSE cmap

\* if quality == gray: ... image_to_grayscale(image); if quality == bitonal: ...
\* image_to_bitonal(image), which converts to grayscale first
QualityStage ==
    /\ pc = "quality"
    /\ colormap' = QualityColormap(params.quality, colormap)
    /\ dst_colormap' = QualityColormap(params.quality, dst_colormap)
    /\ IF params.quality \in {"gray", "bitonal"}
       THEN /\ stages' = Append(stages, "quality")
            /\ IF bands \in {1, 3}
               THEN /\ bands' = 1
                    /\ pc' = "colormap"
                    /\ UNCHANGED <<srcOpen, closes, error, raised_in, status>>
               ELSE /\ Raise("UnsupportedBandCount")
                    /\ UNCHANGED bands
       ELSE /\ pc' = "colormap"
            /\ UNCHANGED <<stages, bands, srcOpen, closes, error, raised_in, status>>
    /\ UNCHANGED <<iiif_settings, req, window, out_width, out_height, rot, mirrored, reads>>
    /\ UNCHANGED <<params, stale_use, uvars, cvars>>

\* if cmap := colormap or dst_colormap: image = image.apply_colormap(cmap), which
\* takes a canvas of one band and returns four
ColormapStage ==
    /\ pc = "colormap"
    /\ LET cmap == IF colormap # "none" THEN colormap ELSE dst_colormap
       IN  IF cmap # "none"
           THEN /\ stages' = Append(stages, "colormap")
                /\ IF bands = 1
                   THEN /\ bands' = 4
                        /\ pc' = "render"
                        /\ UNCHANGED <<srcOpen, closes, error, raised_in, status>>
                   ELSE /\ Raise("InvalidFormat")
                        /\ UNCHANGED bands
           ELSE /\ pc' = "render"
                /\ UNCHANGED <<stages, bands, srcOpen, closes, error, raised_in, status>>
    /\ UNCHANGED <<iiif_settings, req, window, out_width, out_height, rot, mirrored, reads>>
    /\ UNCHANGED <<params, colormap, dst_colormap, stale_use, uvars, cvars>>

\* content = image.render(...); return Response(content, media_type=...)
RenderStage ==
    /\ pc = "render"
    /\ stages' = Append(stages, "render")
    /\ pc' = "done"
    /\ status' = 200
    /\ UNCHANGED <<iiif_settings, req, srcOpen, closes, window, out_width, out_height, rot,
                   mirrored, reads, error, raised_in>>
    /\ UNCHANGED <<params, lvars, stale_use, uvars, cvars>>

\* the response is sent; the locals of the call are gone
Return ==
    /\ pc = "done"
    /\ pc' = "idle"
    /\ req' = NoRequest
    /\ srcOpen' = FALSE
    /\ closes' = 0
    /\ window' = NoWindow
    /\ out_width' = Zero
    /\ out_height' = Zero
    /\ rot' = Zero
    /\ mirrored' = FALSE
    /\ reads' = <<>>
    /\ error' = "none"
    /\ raised_in' = "none"
    /\ status' = 0
    /\ params' = DefaultParams
    /\ stages' = <<>>
    /\ colormap' = "none"
    /\ dst_colormap' = "none"
    /\ bands' = 0
    /\ stale_use' = FALSE
    /\ UNCHANGED iiif_settings
    /\ UNCHANGED <<uvars, cvars>>

Next ==
    \/ OpenSource
    \/ RegionStage
    \/ SizeStage
    \/ LimitsStage
    \/ ReadStage
    \/ RotationStage
    \/ RescaleStage
    \/ ColorFormulaStage
    \/ QualityStage
    \/ ColormapStage
    \/ RenderStage
    \/ Return

Spec == Init /\ [][Next]_vars

(***************************************************************************)
(* Direct calls of the functions of titiler/image/utils.py, as the tests   *)
(* of tests/test_utils.py make them: the arguments are drawn from bounded  *)
(* sets in the initial state and one action per function applies it.       *)
(***************************************************************************)
\* _get_sizes(w, h, max_width, max_height, max_area), 0 standing for None
SizesCall(w, h, mw, mh, ma) ==
    [fn |-> "_get_sizes", w |-> w, h |-> h, max_width |-> mw, max_height |-> mh, max_area |-> ma]
SizesCalls ==
    {SizesCall(w, h, mw, mh, ma) : w \in 1..(MaxDim + 2), h \in 1..(MaxDim + 2),
                                   mw \in 0..MaxDim, mh \in 0..MaxDim, ma \in 0..(2 * MaxDim)}

\* the canvases given to rotate: every pixel of a band has its own value
MaxCanvas == 3
MaskPatterns == {"none", "left", "corner"}
Canvas(w, h, n, pattern) ==
    ImageData([b \in 1..n |-> [r \in 1..h |-> [c \in 1..w |-> 50 * (b - 1) + (r - 1) * w + c]]],
              [r \in 1..h |-> [c \in 1..w |->
                   \/ pattern = "left" /\ c = 1
                   \/ pattern = "corner" /\ c = 1 /\ r = 1]])
RotateCanvases ==
    {Canvas(w, h, n, p) : w \in 1..MaxCanvas, h \in 1..MaxCanvas, n \in {1, 3}, p \in MaskPatterns}
RightAngles == {0, 90, 180, 270, 360}
RotateCall(img, angle, expand, mirror) ==
    [fn |-> "rotate", img |-> img, angle |-> angle, expand |-> expand, mirrored |-> mirror]
RotateCalls ==
    {RotateCall(img, a, e, m) : img \in RotateCanvases, a \in RightAngles, e \in BOOLEAN,
                                m \in BOOLEAN}

\* the canvases given to the quality functions: one pixel with 1 to 4 bands,
\* and the canvases of several pixels above
PixelVals == {0, 111, 127, 128, 219, 220, 255}
Pixel(vals, masked) == ImageData([b \in 1..Len(vals) |-> <<<<vals[b]>>>>], <<<<masked>>>>)
QualityCanvases ==
    {Pixel(<<v>>, m) : v \in PixelVals, m \in BOOLEAN}
    \cup {Pixel(<<R, G, B>>, m) : R \in PixelVals, G \in PixelVals, B \in PixelVals, m \in BOOLEAN}
    \cup {Pixel(<<v, v>>, m) : v \in PixelVals, m \in BOOLEAN}
    \cup {Pixel(<<v, v, v, v>>, m) : v \in PixelVals, m \in BOOLEAN}
    \cup RotateCanvases
GrayCalls == {[fn |-> "image_to_grayscale", img |-> img] : img \in QualityCanvases}
BitonalCalls == {[fn |-> "image_to_bitonal", img |-> img] : img \in QualityCanvases}

Calls == SizesCalls \cup RotateCalls \cup GrayCalls \cup BitonalCalls

InitUtils ==
    /\ iiif_settings = Settings(0, 0, 0)
    /\ Idle
    /\ call \in Calls
    /\ ret = NoRet
    /\ NoLookups

hvars == <<iiif_settings, pc, req, srcOpen, closes, window, out_width, out_height, rot,
           mirrored, reads, error, raised_in, status, params, stages, colormap, dst_colormap,
           bands, stale_use>>

Call_get_sizes ==
    /\ call.fn = "_get_sizes"
    /\ ret = NoRet
    /\ ret' = [err |-> "none",
               val |-> _get_sizes(Int2R(call.w), Int2R(call.h), call.max_width, call.max_height,
                                  call.max_area)]
    /\ UNCHANGED <<call, hvars, cvars>>

Call_rotate ==
    /\ call.fn = "rotate"
    /\ ret = NoRet
    /\ ret' = [err |-> "none", img |-> rotate(call.img, call.angle, call.expand, call.mirrored)]
    /\ UNCHANGED <<call, hvars, cvars>>

Call_image_to_grayscale ==
    /\ call.fn = "image_to_grayscale"
    /\ ret = NoRet
    /\ ret' = image_to_grayscale(call.img)
    /\ UNCHANGED <<call, hvars, cvars>>

Call_image_to_bitonal ==
    /\ call.fn = "image_to_bitonal"
    /\ ret = NoRet
    /\ ret' = image_to_bitonal(call.img)
    /\ UNCHANGED <<call, hvars, cvars>>

NextUtils ==
    \/ Call_get_sizes
    \/ Call_rotate
    \/ Call_image_to_grayscale
    \/ Call_image_to_bitonal

SpecUtils == InitUtils /\ [][NextUtils]_vars

(***************************************************************************)
(* Third specification: worker threads calling get_gcps and get_cutline.   *)
(* FastAPI runs GCPSParams.__init__, a def, in its thread pool, so calls   *)
(* overlap; each step below is one statement of the wrapper of             *)
(* cachetools.cached: look the key up, call the function, store, return.   *)
(***************************************************************************)
InitCache ==
    /\ iiif_settings = Settings(0, 0, 0)
    /\ Idle
    /\ call = NoCall
    /\ ret = NoRet
    /\ NoLookups

\* GCPSParams.__init__ calls get_gcps(gcps_file) or get_cutline(cutline_file)
CallCached(t) ==
    /\ lookups[t].pc = "idle"
    /\ \E fn \in CachedFns, k \in CacheKeys :
          lookups' = [lookups EXCEPT ![t] = [NoLookup EXCEPT !.pc = "lookup", !.fn = fn,
                                                             !.key = k]]
    /\ UNCHANGED <<cache, timer, hvars, uvars>>

\* try: return cache[k]  except KeyError: pass
Lookup(t) ==
    /\ lookups[t].pc = "lookup"
    /\ LET fn == lookups[t].fn
           k == lookups[t].key
           got == CacheGet(cache[fn], k, timer)
       IN  /\ cache' = [cache EXCEPT ![fn] = CacheTouch(@, k)]
           /\ lookups' = [lookups EXCEPT ![t] =
                  IF got.hit
                      THEN [@ EXCEPT !.pc = "done", !.hit = TRUE,
                                     !.ret = [err |-> "none", val |-> got.val]]
                      ELSE [@ EXCEPT !.pc = "fetch"]]
    /\ UNCHANGED <<timer, hvars, uvars>>

\* v = func(*args, **kwargs): the file is read and parsed, or the function raises
CallFunction(t) ==
    /\ lookups[t].pc = "fetch"
    /\ LET got == Fetch(lookups[t].fn, lookups[t].key)
       IN  lookups' = [lookups EXCEPT ![t] =
               [@ EXCEPT !.pc = IF got.err = "none" THEN "store" ELSE "done", !.ret = got]]
    /\ UNCHANGED <<cache, timer, hvars, uvars>>

\* cache[k] = v
Store(t) ==
    /\ lookups[t].pc = "store"
    /\ cache' = [cache EXCEPT ![lookups[t].fn] =
                     CacheSet(@, lookups[t].key, lookups[t].ret.val, timer)]
    /\ lookups' = [lookups EXCEPT ![t].pc = "done"]
    /\ UNCHANGED <<timer, hvars, uvars>>

\* return v, or the exception leaves the function
ReturnCached(t) ==
    /\ lookups[t].pc = "done"
    /\ lookups' = [lookups EXCEPT ![t] = NoLookup]
    /\ UNCHANGED <<cache, timer, hvars, uvars>>

\* time passes
Tick ==
    /\ timer < MaxTimer
    /\ timer' = timer + 1
    /\ UNCHANGED <<cache, lookups, hvars, uvars>>

NextCache ==
    \/ \E t \in Threads : CallCached(t)
    \/ \E t \in Threads : Lookup(t)
    \/ \E t \in Threads : CallFunction(t)
    \/ \E t \in Threads : Store(t)
    \/ \E t \in Threads : ReturnCached(t)
    \/ Tick

SpecCache == InitCache /\ [][NextCache]_vars

(***************************************************************************)
(* Properties.                                                             *)
(***************************************************************************)
\* the local variable window holds what the region segment was parsed into
RegionParsed == pc \notin {"idle", "region"}
\* the request got past the region stage
PastRegion ==
    \/ pc \in {"size", "limits", "read", "rotation", "rescale", "color_formula", "quality",
               "colormap", "render"}
    \/ pc = "done" /\ raised_in # "region"
dstW == Int2R(req.width)
dstH == Int2R(req.height)
IsTestRequest == req.width = TestWidth /\ req.height = TestHeight
\* k is an integer nearest to the rational q
IsNearest(k, q) == 2 * Abs(k * q[2] - q[1]) <= q[2]
\* k is the least integer not below the rational q
IsCeilOf(k, q) == k * q[2] >= q[1] /\ (k - 1) * q[2] < q[1]

\* C1: for a size token without the '^' prefix, a request that reaches the
\* pixel read has out_width <= window.width and out_height <= window.height
\* (it has failed with InvalidSize otherwise); 'w,' with w > window.width,
\* ',h' with h > window.height and 'w,h' with either value above the window
\* end with InvalidSize (400).
C1_NoUpscaleWithoutCaret ==
    /\ (pc = "read" /\ req.size.form \in {"max", "pct:n", "w,", ",h", "w,h", "!w,h"})
           => (RLe(out_width, window.width) /\ RLe(out_height, window.height))
    /\ (pc = "done" /\ PastRegion /\ req.size.form = "w," /\ RGt(Int2R(req.size.v[1]), window.width))
           => (error = "InvalidSize" /\ status = 400)
    /\ (pc = "done" /\ PastRegion /\ req.size.form = ",h" /\ RGt(Int2R(req.size.v[1]), window.height))
           => (error = "InvalidSize" /\ status = 400)
    /\ (pc = "done" /\ PastRegion /\ req.size.form = "w,h"
            /\ (RGt(Int2R(req.size.v[1]), window.width) \/ RGt(Int2R(req.size.v[2]), window.height)))
           => (error = "InvalidSize" /\ status = 400)

\* C2: a request rejected for its region, size or rotation segment
\* (InvalidRegion, InvalidSize, InvalidRotation) has issued no pixel read
\* and is answered with 400: all three are validated before dst.read.
C2_ValidationBeforeRead ==
    (pc = "done" /\ error \in {"InvalidRegion", "InvalidSize", "InvalidRotation"})
        => (reads = <<>> /\ status = 400)

\* C3: a request with a region, size or rotation token that matches none of
\* the grammar forms is answered with 400.
C3_MalformedIs400 ==
    (pc = "done" /\ (\/ req.region.form = "other"
                     \/ req.size.form = "other"
                     \/ req.rotation.form = "other"))
        => status = 400

\* C4: the region 'x,y,w,h' on a W x H source is parsed into the window
\* {x, y, w if x+w <= W else W-x, h if y+h <= H else H-y}: {x,y,w,h} itself
\* when the region is inside the image, and the full image for a region at
\* 0,0 that is larger than the image (test: '0,0,1005,700' on 1000x695).
C4_AbsoluteRegionWindow ==
    (RegionParsed /\ req.region.form = "x,y,w,h") =>
        LET x == req.region.v[1]
            y == req.region.v[2]
            w == req.region.v[3]
            h == req.region.v[4]
        IN  /\ window.col_off = x
            /\ window.row_off = y
            /\ window.width = IF RLe(RAdd(x, w), dstW) THEN w ELSE RSub(dstW, x)
            /\ window.height = IF RLe(RAdd(y, h), dstH) THEN h ELSE RSub(dstH, y)
            /\ (RLe(RAdd(x, w), dstW) /\ RLe(RAdd(y, h), dstH)) => window = Window(x, y, w, h)
            /\ (x = Zero /\ y = Zero /\ RGt(w, dstW) /\ RGt(h, dstH))
                   => window = Window(Zero, Zero, dstW, dstH)
C4_Witness ==
    /\ pc = "size"
    /\ IsTestRequest
    /\ req.region = AbsRegion(Zero, Zero, Int2R(1005), Int2R(700))
    /\ window = Window(Zero, Zero, Int2R(1000), Int2R(695))

\* C5: the region 'pct:x,y,w,h' fails with InvalidRegion (400) if one of the
\* four values is below 0 or above 100; otherwise x and w become the nearest
\* integers to pct/100 * W, y and h the nearest integers to pct/100 * H, and
\* then w and h are clipped so that x+w <= W and y+h <= H
\* (test: 'pct:10,10,10,10' on 1000x695 gives {100,70,100,70}).
C5_PercentRegionWindow ==
    (RegionParsed /\ req.region.form = "pct:x,y,w,h") =>
        LET px == RDiv(RMul(req.region.v[1], dstW), Hundred)
            py == RDiv(RMul(req.region.v[2], dstH), Hundred)
            pw == RDiv(RMul(req.region.v[3], dstW), Hundred)
            ph == RDiv(RMul(req.region.v[4], dstH), Hundred)
        IN  IF \E i \in 1..4 : RLt(req.region.v[i], Zero) \/ RGt(req.region.v[i], Hundred)
            THEN pc = "done" /\ error = "InvalidRegion" /\ status = 400
            ELSE /\ IsInt(window.col_off) /\ IsNearest(window.col_off[1], px)
                 /\ IsInt(window.row_off) /\ IsNearest(window.row_off[1], py)
                 /\ \E w \in 0..req.width :
                        /\ IsNearest(w, pw)
                        /\ window.width = IF window.col_off[1] + w > req.width
                                          THEN Int2R(req.width - window.col_off[1])
                                          ELSE Int2R(w)
                 /\ \E h \in 0..req.height :
                        /\ IsNearest(h, ph)
                        /\ window.height = IF window.row_off[1] + h > req.height
                                           THEN Int2R(req.height - window.row_off[1])
                                           ELSE Int2R(h)
                 /\ RLe(RAdd(window.col_off, window.width), dstW)
                 /\ RLe(RAdd(window.row_off, window.height), dstH)
                 /\ (IsTestRequest /\ req.region.v = <<Int2R(10), Int2R(10), Int2R(10), Int2R(10)>>)
                        => window = Window(Hundred, Int2R(70), Hundred, Int2R(70))
C5_Witness ==
    /\ pc = "size"
    /\ IsTestRequest
    /\ req.region = PctRegion(Int2R(10), Int2R(10), Int2R(10), Int2R(10))
    /\ window = Window(Hundred, Int2R(70), Hundred, Int2R(70))

\* C6: a request that got past region parsing has a window with width > 0,
\* height > 0, col_off <= source width and row_off <= source height; a region
\* whose window has a non-positive width or height after clipping is answered
\* with InvalidRegion (400) (test: '0,1000,100,100' on 1000x695).
C6_WindowAfterRegion ==
    /\ PastRegion =>
           /\ RGt(window.width, Zero)
           /\ RGt(window.height, Zero)
           /\ RLe(window.col_off, dstW)
           /\ RLe(window.row_off, dstH)
    /\ (pc = "done" /\ (RLe(window.width, Zero) \/ RLe(window.height, Zero)))
           => (error = "InvalidRegion" /\ status = 400 /\ reads = <<>>)
C6_Witness ==
    /\ pc = "done"
    /\ IsTestRequest
    /\ req.region = AbsRegion(Zero, Int2R(1000), Hundred, Hundred)
    /\ RLe(window.height, Zero)
    /\ status = 400

\* C7: every pixel read is issued with an output width >= 2 and an output
\* height >= 2.
C7_ReadAtLeastTwoPixels ==
    \A i \in 1..Len(reads) : reads[i].width >= 2 /\ reads[i].height >= 2

C9_FitsInsideBox ==
    (pc = "read" /\ req.size.form = "!w,h" /\ req.size.v[1] > 0 /\ req.size.v[2] > 0) =>
        /\ RLe(out_width, Int2R(req.size.v[1]))
        /\ RLe(out_height, Int2R(req.size.v[2]))
        /\ RLe(out_width, window.width)
        /\ RLe(out_height, window.height)

\* C10: for size '^!w,h' with positive integers w and h the token is parsed
\* into w and h: the size stage ends without an error, with out_width = w
\* when aspect_ratio > 1 and out_height = h otherwise.
C10_CaretBangParsed ==
    (req.size.form = "^!w,h" /\ req.size.v[1] > 0 /\ req.size.v[2] > 0
        /\ PastRegion /\ pc \notin {"size"})
        => /\ error \notin {"ValueError", "InvalidSize"}
           /\ pc = "limits" =>
                  IF RGt(window.width, window.height)
                  THEN out_width = Int2R(req.size.v[1])
                  ELSE out_height = Int2R(req.size.v[2])

\* the aspect ratio window.width / window.height of the parsed window
aspectRatio == RDiv(window.width, window.height)

\* C11: for size '^,h' the size before the limits has out_height = h and
\* out_width = the nearest integer to aspect_ratio * h, also when h is above
\* window.height; '^,1042' on a 1000x695 window gives 1499x1042.
C11_CaretHeight ==
    /\ (pc = "limits" /\ req.size.form = "^,h" /\ req.size.v[1] > 0) =>
           /\ out_height = Int2R(req.size.v[1])
           /\ IsInt(out_width)
           /\ IsNearest(out_width[1], RMul(aspectRatio, Int2R(req.size.v[1])))
    /\ (pc = "limits" /\ req.size.form = "^,h" /\ req.size.v[1] = 1042
            /\ window = Window(Zero, Zero, Int2R(1000), Int2R(695)))
           => (out_width = Int2R(1499) /\ out_height = Int2R(1042))

\* C12: before the limits, size 'w,' (w <= window.width) gives out_width = w
\* and out_height = the nearest integer to w / aspect_ratio; size ',h'
\* (h <= window.height) gives out_height = h and out_width = the nearest
\* integer to aspect_ratio * h; '^w,' follows the rule of 'w,' for any w
\* ('^1500,' on 1000x695 gives 1500x1042).
C12_DerivedDimensionNearest ==
    /\ (pc = "limits" /\ req.size.form \in {"w,", "^w,"} /\ req.size.v[1] > 0) =>
           /\ out_width = Int2R(req.size.v[1])
           /\ IsInt(out_height)
           /\ IsNearest(out_height[1], RDiv(Int2R(req.size.v[1]), aspectRatio))
    /\ (pc = "limits" /\ req.size.form = ",h" /\ req.size.v[1] > 0) =>
           /\ out_height = Int2R(req.size.v[1])
           /\ IsInt(out_width)
           /\ IsNearest(out_width[1], RMul(aspectRatio, Int2R(req.size.v[1])))
    /\ (pc = "limits" /\ req.size.form = "^w," /\ req.size.v[1] = 1500
            /\ window = Window(Zero, Zero, Int2R(1000), Int2R(695)))
           => (out_width = Int2R(1500) /\ out_height = Int2R(1042))

IsPctSize == req.size.form \in {"pct:n", "^pct:n"}
\* the n of 'pct:n' and '^pct:n' is outside the range of its form
PctValueRejected ==
    \/ RLe(req.size.v[1], Zero)
    \/ req.size.form = "pct:n" /\ RGt(req.size.v[1], Hundred)

\* C13 as stated: a request with size 'pct:n' fails with InvalidSize (400)
\* iff n <= 0 or n > 100, one with '^pct:n' iff n <= 0; otherwise the size
\* before the limits is (round(window.width * n/100),
\* round(window.height * n/100)).
C13_PctSizeFailsIff ==
    /\ (pc = "done" /\ PastRegion /\ IsPctSize) =>
           ((error = "InvalidSize" /\ status = 400) <=> PctValueRejected)
    /\ (pc = "limits" /\ IsPctSize) =>
           /\ IsInt(out_width) /\ IsInt(out_height)
           /\ IsNearest(out_width[1], RDiv(RMul(window.width, req.size.v[1]), Hundred))
           /\ IsNearest(out_height[1], RDiv(RMul(window.height, req.size.v[1]), Hundred))

\* C13, amended: the size token 'pct:n' is rejected with InvalidSize (400)
\* while it is parsed iff n <= 0 or n > 100, the token '^pct:n' iff n <= 0;
\* otherwise the size before the limits is the pair of nearest integers to
\* window.width * n/100 and window.height * n/100 (for '^pct:n' with n > 100
\* an upscale, which the limits cap: '^pct:300' on 1000x695 with
\* max_width = 2000 is read at 2000x1390), and the request still fails with
\* InvalidSize (400) when after the limits out_width <= 1 or out_height <= 1.
C13_PctSize ==
    /\ (PastRegion /\ pc # "size" /\ IsPctSize) =>
           /\ (raised_in = "size") <=> PctValueRejected
           /\ (raised_in = "size") => (error = "InvalidSize" /\ status = 400)
           /\ (pc = "done" /\ error = "InvalidSize" /\ raised_in # "size") =>
                  /\ raised_in = "limits"
                  /\ status = 400
                  /\ RLe(out_width, Int2R(1)) \/ RLe(out_height, Int2R(1))
           /\ (pc = "done" /\ error # "InvalidSize") =>
                  (status = 200 /\ RGt(out_width, Int2R(1)) /\ RGt(out_height, Int2R(1)))
    /\ (pc = "limits" /\ IsPctSize) =>
           /\ IsInt(out_width) /\ IsInt(out_height)
           /\ IsNearest(out_width[1], RDiv(RMul(window.width, req.size.v[1]), Hundred))
           /\ IsNearest(out_height[1], RDiv(RMul(window.height, req.size.v[1]), Hundred))
           /\ (req.size.form = "^pct:n" /\ RGt(req.size.v[1], Hundred)) =>
                  (RGt(out_width, window.width) \/ RGt(out_height, window.height))
    /\ (reads # <<>> /\ req.size.form = "^pct:n" /\ req.size.v[1] = Int2R(300) /\ IsTestRequest
            /\ iiif_settings = Settings(TestMaxWidth, TestMaxWidth, 0))
           => (reads[1].width = 2000 /\ reads[1].height = 1390)
C13_Witness ==
    /\ pc = "rotation"
    /\ IsTestRequest
    /\ req.size.form = "^pct:n" /\ req.size.v[1] = Int2R(300)
    /\ iiif_settings.max_width = TestMaxWidth
    /\ reads = <<[window |-> Window(Zero, Zero, Int2R(1000), Int2R(695)), width |-> 2000, height |-> 1390]>>

\* a call of _get_sizes has returned
SizesReturned == call.fn = "_get_sizes" /\ ret # NoRet
\* a limit that _get_sizes applies is exceeded by the arguments of the call:
\* max_area, max_width, or the height limit max_height or max_width
LimitExceeded ==
    \/ call.max_area # 0 /\ call.w * call.h > call.max_area
    \/ call.max_width # 0 /\ call.w > call.max_width
    \/ call.max_width # 0
           /\ call.h > (IF call.max_height # 0 THEN call.max_height ELSE call.max_width)

\* C14: for all w, h >= 1 and every combination of max_width, max_height and
\* max_area, each set or unset, _get_sizes returns (w', h') with w' <= w and
\* h' <= h, and returns (w, h) itself when no limit is exceeded.
C14_CeilingOnly ==
    SizesReturned =>
        /\ RLe(ret.val[1], Int2R(call.w))
        /\ RLe(ret.val[2], Int2R(call.h))
        /\ ~LimitExceeded => ret.val = <<Int2R(call.w), Int2R(call.h)>>
C14_Witness ==
    /\ SizesReturned
    /\ call = SizesCall(MaxDim, MaxDim + 2, MaxDim, 0, 0)
    /\ ret.val = <<Int2R((MaxDim * MaxDim) \div (MaxDim + 2)), Int2R(MaxDim)>>

\* C15: a rotation token is accepted iff it is an optional leading '!'
\* followed by a number d with 0 <= d <= 360, and then mirrored is true iff
\* the token starts with '!' and the degrees are d; every other token (out of
\* range, not a number, '!' elsewhere than in the first position) is rejected
\* with InvalidRotation (400).
C15_RotationGrammar ==
    /\ pc = "render" =>
           /\ req.rotation.form \in {"n", "!n"}
           /\ RLe(Zero, req.rotation.v[1]) /\ RLe(req.rotation.v[1], Int2R(360))
           /\ rot = req.rotation.v[1]
           /\ mirrored = (req.rotation.form = "!n")
    /\ (pc = "done" /\ raised_in = "rotation") =>
           /\ error = "InvalidRotation" /\ status = 400
           /\ \/ req.rotation.form = "other"
              \/ RLt(req.rotation.v[1], Zero)
              \/ RGt(req.rotation.v[1], Int2R(360))

\* a call of rotate has returned
RotateReturned == call.fn = "rotate" /\ ret # NoRet

\* C16: for a canvas of W x H pixels, rotate with expand returns a canvas of
\* H x W for 90 and 270 degrees and of W x H for 180 and 360 degrees,
\* mirrored or not, with the same number of bands; without expand the output
\* is W x H for every angle.
C16_RotatedSize ==
    RotateReturned =>
        LET W == Width(call.img)
            H == Height(call.img)
        IN  /\ Count(ret.img) = Count(call.img)
            /\ (call.expand /\ call.angle \in {90, 270}) =>
                   (Width(ret.img) = H /\ Height(ret.img) = W)
            /\ (call.expand /\ call.angle \in {180, 360}) =>
                   (Width(ret.img) = W /\ Height(ret.img) = H)
            /\ ~call.expand => (Width(ret.img) = W /\ Height(ret.img) = H)
            /\ \A b \in 1..Count(ret.img) :
                   /\ Len(ret.img.data[b]) = Height(ret.img)
                   /\ \A r \in 1..Height(ret.img) : Len(ret.img.data[b][r]) = Width(ret.img)
C16_Witness ==
    /\ RotateReturned
    /\ call.expand /\ call.angle = 90 /\ call.mirrored
    /\ Width(call.img) = MaxCanvas /\ Height(call.img) = MaxCanvas - 1
    /\ Count(call.img) = 3
    /\ Width(ret.img) = MaxCanvas - 1 /\ Height(ret.img) = MaxCanvas

GrayReturned == call.fn = "image_to_grayscale" /\ ret # NoRet
BitonalReturned == call.fn = "image_to_bitonal" /\ ret # NoRet
SameShape(a, b) == Width(a) = Width(b) /\ Height(a) = Height(b)

\* C17: image_to_bitonal leaves the mask unchanged: for every canvas of 1 or
\* 3 bands, a pixel of the output is masked iff the pixel of the input is.
C17_BitonalKeepsMask ==
    (BitonalReturned /\ Count(call.img) \in {1, 3}) =>
        /\ ret.err = "none"
        /\ SameShape(ret.img, call.img)
        /\ \A r \in 1..Height(call.img) : \A c \in 1..Width(call.img) :
               ret.img.mask[r][c] = call.img.mask[r][c]

\* C18: image_to_grayscale returns a canvas of 1 band unchanged (applying it
\* to its own result returns that result), turns a canvas of 3 bands into a
\* canvas of 1 band of the same width and height in which a pixel is masked
\* iff it is masked in the input, and for every other number of bands raises
\* the HTTPException with status 400 and returns no canvas.
C18_Grayscale ==
    GrayReturned =>
        /\ Count(call.img) = 1 => (ret.err = "none" /\ ret.img = call.img)
        /\ Count(call.img) = 3 =>
               /\ ret.err = "none"
               /\ Count(ret.img) = 1
               /\ SameShape(ret.img, call.img)
               /\ Len(ret.img.data[1]) = Height(call.img)
               /\ \A r \in 1..Height(call.img) :
                      /\ Len(ret.img.data[1][r]) = Width(call.img)
                      /\ \A c \in 1..Width(call.img) : ret.img.mask[r][c] = call.img.mask[r][c]
        /\ Count(call.img) \notin {1, 3} =>
               /\ ret.err = "UnsupportedBandCount"
               /\ ret.status_code = 400
               /\ "img" \notin DOMAIN ret
        /\ ret.err = "none" => image_to_grayscale(ret.img) = ret
C18_Witness ==
    /\ GrayReturned
    /\ call.img = Canvas(MaxCanvas, 2, 3, "corner")
    /\ Count(ret.img) = 1
    /\ ret.img.mask[1][1] /\ ~ret.img.mask[2][1]

\* C19: for every canvas of 1 or 3 bands, each pixel of the single band that
\* image_to_bitonal returns is 255 if the pixel's grayscale value is above
\* 127 and 0 otherwise: the output values are within {0, 255}.
C19_BitonalValues ==
    (BitonalReturned /\ Count(call.img) \in {1, 3}) =>
        LET gray == image_to_grayscale(call.img).img
        IN  /\ ret.err = "none"
            /\ Count(ret.img) = 1
            /\ \A r \in 1..Height(call.img) : \A c \in 1..Width(call.img) :
                   /\ ret.img.data[1][r][c] \in {0, 255}
                   /\ ret.img.data[1][r][c] = 255 <=> gray.data[1][r][c] > 127
C19_Witness ==
    /\ BitonalReturned
    /\ call.img = Pixel(<<219, 111, 0>>, FALSE)
    /\ ret.img.data = <<<<<<255>>>>>>

\* C20: for region 'square' on a source of W x H pixels the window is the
\* centred square of side s = min(W, H): col_off = (W - s) div 2, row_off =
\* (H - s) div 2, width = height = s; it lies inside the image and one of
\* the two offsets is 0 (1000x695 gives {152, 0, 695, 695}).
C20_SquareWindow ==
    (RegionParsed /\ req.region.form = "square") =>
        LET W == req.width
            H == req.height
        IN  /\ raised_in # "region"
            /\ \E s \in {W, H}, x \in 0..W, y \in 0..H :
                   /\ s <= W /\ s <= H
                   /\ 2 * x <= W - s /\ W - s < 2 * x + 2
                   /\ 2 * y <= H - s /\ H - s < 2 * y + 2
                   /\ window = Window(Int2R(x), Int2R(y), Int2R(s), Int2R(s))
                   /\ x + s <= W /\ y + s <= H
                   /\ x = 0 \/ y = 0
            /\ (W = 1000 /\ H = 695) =>
                   window = Window(Int2R(152), Zero, Int2R(695), Int2R(695))
C20_Witness ==
    /\ pc = "size"
    /\ IsTestRequest
    /\ req.region.form = "square"
    /\ window = Window(Int2R(152), Zero, Int2R(695), Int2R(695))

\* the call of thread t took the step from statement a to statement b
Stepped(t, a, b) == lookups[t].pc = a /\ lookups'[t].pc = b
\* the value the function computes for the file k
ValueOf(fn, k) == [fn |-> fn, of |-> k]

StageOrder == <<"region", "size", "read", "rotation", "rescale", "color_formula", "quality",
                "colormap", "render">>
StageIndex(st) == CHOOSE i \in 1..Len(StageOrder) : StageOrder[i] = st
HasRun(st) == \E i \in 1..Len(stages) : stages[i] = st
\* the request asks for the stage st: the optional ones are asked for by a query
\* parameter, and the colormap is the one of the query or else of the dataset
Requested(st) ==
    CASE st = "rescale" -> params.rescale
      [] st = "color_formula" -> params.color_formula
      [] st = "quality" -> params.quality \in {"gray", "bitonal"}
      [] st = "colormap" -> /\ params.colormap \/ params.src_colormap
                            /\ params.quality \notin {"gray", "bitonal"}
      [] OTHER -> TRUE
StageOfPc(at) == IF at = "limits" THEN "size" ELSE at

\* C22: the stages run in the order region, size (with limits), read, rotation, rescale,
\* color formula, quality, colormap, encoding, each at most once; a successful request has
\* run every stage it asks for exactly once and no other; the quality stage discards any
\* colormap, so the colormap stage never follows it; and a request that failed has run
\* nothing after the stage that failed.
C22_StagesInOrder ==
    /\ \A i, j \in 1..Len(stages) :
          i < j => StageIndex(stages[i]) < StageIndex(stages[j])
    /\ HasRun("quality") => ~HasRun("colormap") /\ colormap = "none" /\ dst_colormap = "none"
    /\ (pc = "done" /\ error = "none") =>
          /\ status = 200
          /\ \A i \in 1..Len(StageOrder) : HasRun(StageOrder[i]) <=> Requested(StageOrder[i])
    /\ (pc = "done" /\ error # "none") =>
          /\ status # 200
          /\ stages # <<>>
          /\ stages[Len(stages)] = StageOfPc(raised_in)
          /\ ~HasRun("render")
\* a gray request with every optional parameter set and a colormap in the query and in
\* the dataset has run eight stages, the colormap stage not among them
C22_Witness ==
    /\ pc = "done"
    /\ error = "none"
    /\ params.colormap /\ params.src_colormap
    /\ stages = <<"region", "size", "read", "rotation", "rescale", "color_formula", "quality",
                  "render">>

\* the height limit _get_sizes applies when max_width is set
HeightLimit == IF call.max_height # 0 THEN call.max_height ELSE call.max_width

\* C23: whenever max_width is configured, the result (w', h') of _get_sizes has
\* w' <= max_width and h' <= (max_height or max_width), also when max_area is set and
\* exceeded.
C23_WithinMaxWidth ==
    (SizesReturned /\ call.max_width # 0) =>
        /\ RLe(ret.val[1], Int2R(call.max_width))
        /\ RLe(ret.val[2], Int2R(HeightLimit))

\* what the size stage and the limits make of the size token for the window win:
\* whether the request gets to the read, and the width and height it reads at
SizeOutcome(size, win, settings) ==
    LET res == ParseSize(size, win, settings.max_width, settings.max_height)
        sz == _get_sizes(res.out_width, res.out_height, settings.max_width,
                         settings.max_height, settings.max_area)
    IN  [ok |-> res.err = "none" /\ RGt(sz[1], Int2R(1)) /\ RGt(sz[2], Int2R(1)),
         width |-> Trunc(sz[1]), height |-> Trunc(sz[2])]

\* C24: for the same window and limits, whenever 'max' succeeds '^max' succeeds too,
\* and its output is not smaller than the output of 'max' in either dimension.
C24_CaretMaxNotSmaller ==
    (pc = "read" /\ req.size.tok = s_max) =>
        LET up == SizeOutcome(s_hmax, window, iiif_settings)
        IN  /\ up.ok
            /\ up.width >= Trunc(out_width)
            /\ up.height >= Trunc(out_height)

\* C25: every window passed to the pixel source lies inside the image: col_off >= 0,
\* row_off >= 0, col_off + width <= W and row_off + height <= H, for every region form.
C25_WindowInsideImage ==
    \A i \in 1..Len(reads) :
        LET win == reads[i].window
        IN  /\ RLe(Zero, win.col_off)
            /\ RLe(Zero, win.row_off)
            /\ RLe(RAdd(win.col_off, win.width), dstW)
            /\ RLe(RAdd(win.row_off, win.height), dstH)

\* C26: rotate(img, 180, expand=True) of a canvas of W x H pixels, W and H even or odd,
\* turns the canvas upside down: the output pixel at row r, column c has, in every band,
\* the value and the mask of the input pixel at row H-1-r, column W-1-c (rows and columns
\* from 0), so no pixel is lost and a canvas without masked pixels stays without.
C26_HalfTurn ==
    (RotateReturned /\ call.angle = 180 /\ call.expand /\ ~call.mirrored) =>
        LET W == Width(call.img)
            H == Height(call.img)
        IN  /\ SameShape(ret.img, call.img)
            /\ \A r \in 1..H : \A c \in 1..W :
                  /\ ret.img.mask[r][c] = call.img.mask[H + 1 - r][W + 1 - c]
                  /\ \A b \in 1..Count(call.img) :
                        ret.img.data[b][r][c] = call.img.data[b][H + 1 - r][W + 1 - c]

\* C27: with angle 0, rotate returns the canvas unchanged when not mirrored; when
\* mirrored, the output pixel at row r, column c has the value and the mask of the input
\* pixel at row r, column W-1-c (columns from 0) in every band, so that mirroring the
\* result again gives the input back; width, height and band count do not change.
C27_ZeroAngle ==
    (RotateReturned /\ call.angle = 0) =>
        LET W == Width(call.img)
            H == Height(call.img)
        IN  /\ SameShape(ret.img, call.img)
            /\ Count(ret.img) = Count(call.img)
            /\ ~call.mirrored => ret.img = call.img
            /\ call.mirrored =>
                  /\ \A r \in 1..H : \A c \in 1..W :
                        /\ ret.img.mask[r][c] = call.img.mask[r][W + 1 - c]
                        /\ \A b \in 1..Count(call.img) :
                              ret.img.data[b][r][c] = call.img.data[b][r][W + 1 - c]
                  /\ rotate(ret.img, 0, call.expand, TRUE) = call.img
\* a canvas of three bands whose first column is masked was mirrored: the mask is now
\* on the last column
C27_Witness ==
    /\ RotateReturned
    /\ call.angle = 0 /\ call.mirrored
    /\ Width(call.img) = MaxCanvas /\ Count(call.img) = 3
    /\ call.img.mask[1][1] /\ ~call.img.mask[1][MaxCanvas]
    /\ ret.img.mask[1][MaxCanvas] /\ ~ret.img.mask[1][1]
    /\ ret.img.data[1][1][1] = call.img.data[1][1][MaxCanvas]

\* max_area is set and the area of the call is above it
AreaExceeded == call.max_area # 0 /\ call.w * call.h > call.max_area

C29_LumaExact ==
    (GrayReturned /\ Count(call.img) = 3) =>
        /\ ret.err = "none"
        /\ \A r \in 1..Height(call.img) : \A c \in 1..Width(call.img) :
              LET R == call.img.data[1][r][c]
                  G == call.img.data[2][r][c]
                  B == call.img.data[3][r][c]
              IN  /\ ret.img.data[1][r][c] = (299 * R + 587 * G + 114 * B) \div 1000
                  /\ ret.img.data[1][r][c] \in 0..255

\* the statements inside the with block, and those after it
InsideWith == {"region", "size", "limits", "read"}
AfterWith == {"rotation", "rescale", "color_formula", "quality", "colormap", "render"}

\* C30: the pixel source of a request is closed exactly once on every path (a read that
\* succeeds, a read that fails, an error raised by the region or size validation while
\* it is open, an error raised later) and is never used while closed: it is open and
\* not yet closed inside the with block, closed once from the end of the read on, the
\* later stages work on the canvas and on the colormap captured before the close.
C30_ClosedOnce ==
    /\ ~stale_use
    /\ closes <= 1
    /\ pc \in InsideWith => (srcOpen /\ closes = 0)
    /\ pc \in AfterWith \cup {"done"} => (~srcOpen /\ closes = 1)
    /\ (dst_colormap # "none") => (params.src_colormap /\ reads # <<>>)
\* the read failed: the exception left the with block, which closed the source
C30_Witness ==
    /\ pc = "done"
    /\ raised_in = "read"
    /\ error = "RasterioIOError"
    /\ reads # <<>>
    /\ ~srcOpen /\ closes = 1
====
